---- MODULE Spec2Model ----
(***************************************************************************)
(* Model of the demand-forecasting service in src/ai/src/app.py: the       *)
(* /forecast handler (cache lookup, normalisation, model selection, the    *)
(* moving-average fallback, the Prophet adapter, quality scoring, cache    *)
(* write) and the accuracy evaluator.                                      *)
(*                                                                         *)
(* Numbers.  Sales values are integers.  A value the code rounds to two    *)
(* decimals is kept as an integer count of hundredths; a raw engine output *)
(* is an integer count of thousandths.  Dates are day numbers.             *)
(***************************************************************************)
EXTENDS Integers, Sequences, FiniteSets, TLC

VARIABLES
    cache,      \* the Redis database: key -> [value, expires_at]
    clock,      \* wall clock, in ticks
    pc,         \* per request: where the handler is
    request,    \* per request: the JSON body
    local,      \* per request: the handler's local variables and what the engine did
    response,   \* per request: [status, body] once the handler returned
    stages,     \* per request: the calls the handler made, in order
    acc,        \* the accuracy evaluator's request and result
    ma          \* the fallback forecaster called on its own

vars == <<cache, clock, pc, request, local, response, stages, acc, ma>>

-----------------------------------------------------------------------------
(* Program constants *)

MIN_DATA_POINTS == 30
FORECAST_DAYS == 30
CACHE_TTL == 86400

(* Bounds of the model *)

MaxClock == 1          \* the clock stops after this many ticks
TicksPerDay == 1       \* ticks in one calendar day
Today0 == 100          \* the day number at clock 0
MaxAccLen == 2         \* longest forecast / actual list given to the evaluator
MaxAccVal == 2         \* demands given to the evaluator are -1, 0 and MaxAccVal
MaxSeriesLen == 8      \* longest series given to the fallback on its own
MaxSeriesVal == 3      \* its values are -1, 0 and MaxSeriesVal

Reqs == {1, 2}         \* the requests in flight

-----------------------------------------------------------------------------
(* Arithmetic helpers *)

Abs(x) == IF x < 0 THEN -x ELSE x
Min(a, b) == IF a < b THEN a ELSE b
Max(a, b) == IF a > b THEN a ELSE b

RECURSIVE Gcd(_, _)
Gcd(a, b) == IF b = 0 THEN a ELSE Gcd(b, a % b)

RECURSIVE SumSeq(_)
SumSeq(s) == IF s = <<>> THEN 0 ELSE Head(s) + SumSeq(Tail(s))

\* numpy's round-half-to-even of the rational a / b (b > 0) to an integer
RoundHalfEven(a, b) ==
    LET q == a \div b
        r == a % b
    IN  IF 2 * r < b THEN q
        ELSE IF 2 * r > b THEN q + 1
        ELSE IF q % 2 = 0 THEN q ELSE q + 1

\* round(num / den, 2), as a count of hundredths
Round2(num, den) == RoundHalfEven(100 * num, den)

\* the clamp left out
ClampNone(x) == x

\* max(0, x)
Clamp0(x) == IF x > 0 THEN x ELSE 0

-----------------------------------------------------------------------------
(* JSON cells and DataFrame cells.  A raw `ds` is an ISO date string        *)
(* ("iso", day number), null, or a string that is no date ("bad").  A raw   *)
(* `y` is a number, a numeric string, a non-numeric string or null.         *)

Cell(k, v) == [k |-> k, v |-> v]

\* pd.to_datetime on one cell (a string that is no date raises: see Normalize)
ToTimestamp(c) == IF c.k = "iso" THEN Cell("ts", c.v) ELSE Cell("NaT", 0)

\* pd.to_numeric(errors='coerce') on one cell
ToNumber(c) == IF c.k \in {"num", "numstr"} THEN Cell("num", c.v) ELSE Cell("NaN", 0)

IsNull(c) == c.k \in {"NaT", "NaN"}

NoNullRow(row) == ~IsNull(row.ds) /\ ~IsNull(row.y)

\* df.dropna(): the rows without a null cell, in their original order
dropna(rows) == SelectSeq(rows, NoNullRow)

\* Lines 67-72 of generate_forecast: DataFrame, to_datetime, to_numeric,
\* dropna.  An empty record list has no 'ds' column (KeyError); a date
\* string that does not parse makes pd.to_datetime raise.
Normalize(sales_data) ==
    IF sales_data = <<>> THEN [ok |-> FALSE, error |-> "'ds'", df |-> <<>>]
    ELSE IF \E i \in 1..Len(sales_data) : sales_data[i].ds.k = "bad"
    THEN [ok |-> FALSE, error |-> "Unknown datetime string format", df |-> <<>>]
    ELSE [ok |-> TRUE, error |-> "",
          df |-> dropna([i \in 1..Len(sales_data) |->
                            [ds |-> ToTimestamp(sales_data[i].ds),
                             y  |-> ToNumber(sales_data[i].y)]])]

\* df['ds'].max(); only used on a non-empty frame
MaxDate(rows) ==
    CHOOSE d \in {rows[i].ds.v : i \in 1..Len(rows)} :
        \A i \in 1..Len(rows) : rows[i].ds.v <= d

\* df.tail(k)
DfTail(rows, k) == SubSeq(rows, Len(rows) - k + 1, Len(rows))

ColumnY(rows) == [i \in 1..Len(rows) |-> rows[i].y.v]

-----------------------------------------------------------------------------
(* generate_moving_average_forecast *)

\* the bounds taken from the rounded point estimate
MovingAveragePointFromRounded(sum, window_size) ==
    LET predicted == Round2(sum, window_size)
    IN  [predicted_demand |-> Clamp0(predicted),
         lower_bound      |-> Clamp0(RoundHalfEven(predicted * 8, 10)),
         upper_bound      |-> Clamp0(RoundHalfEven(predicted * 12, 10))]

\* the three values of one point, from the window's sum and size
MovingAveragePoint(sum, window_size) ==
    [predicted_demand |-> Clamp0(Round2(sum, window_size)),
     lower_bound      |-> Clamp0(Round2(sum * 8, window_size * 10)),
     upper_bound      |-> Clamp0(Round2(sum * 12, window_size * 10))]

\* On an empty frame recent_avg is NaN and last_date is NaT: max(0, nan)
\* is 0, and NaT.strftime raises as soon as the loop runs once.
generate_moving_average_forecast(rows, days_ahead) ==
    LET window_size == Min(7, Len(rows))
        sum == SumSeq(ColumnY(DfTail(rows, window_size)))
    IN  IF Len(rows) = 0
        THEN IF days_ahead >= 1
             THEN [ok |-> FALSE, error |-> "NaTType does not support strftime",
                   forecast |-> <<>>]
             ELSE [ok |-> TRUE, error |-> "", forecast |-> <<>>]
        ELSE LET p == MovingAveragePoint(sum, window_size)
                 last_date == MaxDate(rows)
             IN  [ok |-> TRUE, error |-> "",
                  forecast |-> [i \in 1..Max(days_ahead, 0) |->
                      [date             |-> last_date + i,
                       predicted_demand |-> p.predicted_demand,
                       lower_bound      |-> p.lower_bound,
                       upper_bound      |-> p.upper_bound]]]

-----------------------------------------------------------------------------
(* The Prophet adapter.  The engine is an external collaborator: one call   *)
(* either fails to fit or returns, for each future day, a raw row (yhat,    *)
(* yhat_lower, yhat_upper) in thousandths.  `outcome` is what the engine    *)
(* does on this call: [ok, rows], the rows being repeated in a cycle over   *)
(* the future days.                                                         *)

EngineRow(outcome, i) == outcome.rows[((i - 1) % Len(outcome.rows)) + 1]

\* lines 280-286: one formatted point
FormatPoint(date, row) ==
    [date                      |-> date,
     predicted_demand          |-> Clamp0(Round2(row.yhat, 1000)),
     lower_bound               |-> Clamp0(Round2(row.yhat_lower, 1000)),
     upper_bound               |-> Clamp0(Round2(row.yhat_upper, 1000)),
     confidence_interval_width |-> Round2(row.yhat_upper - row.yhat_lower, 1000)]

\* factor.get('values', [0] * len(df)) fits the frame
FactorFits(factor, n) == ~factor.has_values \/ Len(factor.values) = n

\* The frame is changed in place: a column per factor and is_quarter_end.
AddColumns(columns, external_factors) ==
    LET names == [i \in 1..Len(external_factors) |-> external_factors[i].name]
        RECURSIVE Add(_, _)
        Add(cols, more) ==
            IF more = <<>> THEN cols
            ELSE IF \E j \in 1..Len(cols) : cols[j] = Head(more)
                 THEN Add(cols, Tail(more))
                 ELSE Add(Append(cols, Head(more)), Tail(more))
    IN  Add(columns, names \o <<"is_quarter_end">>)

generate_enhanced_prophet_forecast(df, days_ahead, external_factors, outcome) ==
    LET n == Len(df.rows)
    IN  IF \E i \in 1..Len(external_factors) : ~FactorFits(external_factors[i], n)
        THEN [ok |-> FALSE, forecast |-> <<>>, df |-> df,
              error |-> "Length of values does not match length of index"]
        ELSE LET df2 == [df EXCEPT !.columns = AddColumns(@, external_factors)]
                 last_date == MaxDate(df.rows)
             IN  IF ~outcome.ok
                 THEN [ok |-> FALSE, forecast |-> <<>>, df |-> df2,
                       error |-> "engine failed"]
                 ELSE [ok |-> TRUE, error |-> "", df |-> df2,
                       forecast |-> [i \in 1..Max(days_ahead, 0) |->
                           FormatPoint(last_date + i, EngineRow(outcome, i))]]

\* the four-week horizon taken as a month
MultiStepHorizonsMonth == <<7, 30, 84>>

\* the horizons of generate_multi_step_forecast and their labels
MultiStepHorizons == <<7, 28, 84>>
MultiStepLabels == <<"1_week", "4_week", "12_week">>

\* lines 295-301 from the k-th call on: one adapter call per horizon, each
\* on the frame the calls before it left; a call that raises ends them
RECURSIVE MultiStepLoop(_, _, _, _, _)
MultiStepLoop(df, external_factors, outcomes, k, forecasts) ==
    IF k > Len(MultiStepHorizons)
    THEN [ok |-> TRUE, error |-> "", df |-> df, forecast |-> forecasts]
    ELSE LET c == generate_enhanced_prophet_forecast(df, MultiStepHorizons[k],
                                                     external_factors, outcomes[k])
         IN  IF ~c.ok THEN [c EXCEPT !.forecast = <<>>]
             ELSE MultiStepLoop(c.df, external_factors, outcomes, k + 1,
                      [l \in DOMAIN forecasts \cup {MultiStepLabels[k]} |->
                          IF l = MultiStepLabels[k] THEN c.forecast ELSE forecasts[l]])

generate_multi_step_forecast(df, external_factors, outcomes) ==
    MultiStepLoop(df, external_factors, outcomes, 1, <<>>)

-----------------------------------------------------------------------------
(* calculate_data_quality_score.  The score is a rational, kept in lowest   *)
(* terms as [num, den].                                                     *)

Rational(num, den) ==
    LET g == Gcd(Abs(num), den)
    IN  [num |-> num \div g, den |-> den \div g]

\* the k-th smallest of the values: element k of the sorted column
KthSmallest(y, k) ==
    CHOOSE v \in {y[i] : i \in 1..Len(y)} :
        /\ Cardinality({i \in 1..Len(y) : y[i] < v}) < k
        /\ Cardinality({i \in 1..Len(y) : y[i] <= v}) >= k

\* four times np.percentile(values, 25 * quarter), linear interpolation
Percentile4(y, quarter) ==
    LET h == quarter * (Len(y) - 1)
        i == h \div 4
        f == h % 4
    IN  IF f = 0 THEN 4 * KthSmallest(y, i + 1)
        ELSE KthSmallest(y, i + 1) * (4 - f) + KthSmallest(y, i + 2) * f

\* df.isnull().sum().sum(): the added columns never hold a null
NullCells(rows) ==
    Cardinality({i \in 1..Len(rows) : IsNull(rows[i].ds)})
      + Cardinality({i \in 1..Len(rows) : IsNull(rows[i].y)})

\* missing_ratio * 30, times the common denominator 10 * n * columns
MissingPenalty(df) == 300 * NullCells(df.rows)

calculate_data_quality_score(df, today) ==
    IF df.rows = <<>> THEN Rational(0, 1)
    ELSE
    LET n == Len(df.rows)
        y == ColumnY(df.rows)
        D == 10 * n * Len(df.columns)
        s1 == 100 * D - MissingPenalty(df)
        s2 == IF n < 30 THEN s1 - (30 - n) * 2 * D ELSE s1
        zero_var == n >= 2 /\ \A i \in 1..n : y[i] = y[1]
        s3 == IF zero_var THEN s2 - 40 * D ELSE s2
        q25 == Percentile4(y, 1)
        q75 == Percentile4(y, 3)
        iqr == q75 - q25
        outliers == Cardinality({i \in 1..n :
                        \/ 8 * y[i] < 2 * q25 - 3 * iqr
                        \/ 8 * y[i] > 2 * q75 + 3 * iqr})
        s4 == s3 - 200 * outliers * Len(df.columns)
        days_since_last == today - MaxDate(df.rows)
        s5 == IF days_since_last <= 7 THEN s4 + 5 * D
              ELSE IF days_since_last > 30
                   THEN s4 - Min(10 * D, days_since_last * n * Len(df.columns))
                   ELSE s4
    IN  Rational(Max(0, Min(100 * D, s5)), D)

-----------------------------------------------------------------------------
(* JSON and the cache *)

ResponseKeys == <<"product_id", "forecasts", "confidence_level", "model_used",
                  "data_quality_score", "external_factors_used", "generated_at">>

\* json.dumps(response): the members in insertion order
json_dumps(r) ==
    << <<ResponseKeys[1], r.product_id>>, <<ResponseKeys[2], r.forecasts>>,
       <<ResponseKeys[3], r.confidence_level>>, <<ResponseKeys[4], r.model_used>>,
       <<ResponseKeys[5], r.data_quality_score>>,
       <<ResponseKeys[6], r.external_factors_used>>,
       <<ResponseKeys[7], r.generated_at>> >>

\* json.loads(text): a mapping from each member's name to its value
json_loads(text) ==
    LET member(k) == text[CHOOSE i \in 1..Len(text) : text[i][1] = k][2]
    IN  [product_id            |-> member("product_id"),
         forecasts             |-> member("forecasts"),
         confidence_level      |-> member("confidence_level"),
         model_used            |-> member("model_used"),
         data_quality_score    |-> member("data_quality_score"),
         external_factors_used |-> member("external_factors_used"),
         generated_at          |-> member("generated_at")]

\* f"forecast:{product_id}:{forecast_horizon}:{len(external_factors)}"
cache_key(product_id, forecast_horizon, external_factors) ==
    <<"forecast", product_id, forecast_horizon, Len(external_factors)>>

\* seconds in one tick of the clock, and a time to live in ticks
SecondsPerTick == (24 * 60 * 60) \div TicksPerDay
TtlTicks(ttl) == ttl \div SecondsPerTick

\* redis_client.get(key) at time `now`: an entry past its expiry is gone
redis_get(c, key, now) ==
    IF key \in DOMAIN c /\ now < c[key].expires_at
    THEN [found |-> TRUE, value |-> c[key].value]
    ELSE [found |-> FALSE, value |-> <<>>]

\* a write that keeps a live entry: the first writer wins
redis_setnx(c, key, ttl, value, now) ==
    IF key \in DOMAIN c /\ now < c[key].expires_at THEN c
    ELSE [k \in DOMAIN c \cup {key} |->
            IF k = key THEN [value |-> value, expires_at |-> now + TtlTicks(ttl)]
            ELSE c[k]]

\* redis_client.setex(key, ttl, value) at time `now`
redis_setex(c, key, ttl, value, now) ==
    [k \in DOMAIN c \cup {key} |->
        IF k = key THEN [value |-> value, expires_at |-> now + TtlTicks(ttl)]
        ELSE c[k]]

-----------------------------------------------------------------------------
(* calculate_accuracy_metrics.  Every metric is a rational in lowest terms. *)

RatAdd(a, b) == Rational(a.num * b.den + b.num * a.den, a.den * b.den)

RECURSIVE SumRat(_)
SumRat(s) == IF s = <<>> THEN Rational(0, 1) ELSE RatAdd(Head(s), SumRat(Tail(s)))

\* the largest x in lo..hi with x * x <= v
RECURSIVE ISqrtIn(_, _, _)
ISqrtIn(v, lo, hi) ==
    IF lo = hi THEN lo
    ELSE LET mid == (lo + hi + 1) \div 2
         IN  IF mid * mid <= v THEN ISqrtIn(v, mid, hi) ELSE ISqrtIn(v, lo, mid - 1)

\* np.sqrt of a rational, cut to hundredths
RatSqrt(a) == Rational(ISqrtIn(a.num * a.den * 10000, 0, 40000), a.den * 100)

\* pd.merge(forecast_df, actual_df, on='date', how='inner'): for each
\* forecast row, in order, the actual rows of the same date, in order
RECURSIVE MatchRight(_, _)
MatchRight(f, actual_sales) ==
    IF actual_sales = <<>> THEN <<>>
    ELSE (IF Head(actual_sales).date = f.date
          THEN <<[predicted |-> f.predicted_demand,
                  actual |-> Head(actual_sales).actual_demand]>>
          ELSE <<>>) \o MatchRight(f, Tail(actual_sales))

RECURSIVE Merge(_, _)
Merge(forecasts, actual_sales) ==
    IF forecasts = <<>> THEN <<>>
    ELSE MatchRight(Head(forecasts), actual_sales) \o Merge(Tail(forecasts), actual_sales)

\* np.where(actual != 0, actual, 1)
ActualOr1(a) == IF a # 0 THEN a ELSE 1

\* the zero denominator read as a perfect fit
RSquaredUnguarded(ss_res_k2, ss_tot_k2) ==
    IF ss_tot_k2 # 0 THEN Rational(ss_tot_k2 - ss_res_k2, ss_tot_k2)
    ELSE Rational(1, 1)

\* lines 335-337, from ss_res and ss_tot times the squared sample size
RSquared(ss_res_k2, ss_tot_k2) ==
    IF ss_tot_k2 # 0 THEN Rational(ss_tot_k2 - ss_res_k2, ss_tot_k2)
    ELSE Rational(0, 1)

calculate_accuracy_metrics(forecasts, actual_sales) ==
    LET merged == Merge(forecasts, actual_sales)
        k == Len(merged)
        idx == 1..k
        abs_err == [i \in idx |-> Abs(merged[i].predicted - merged[i].actual)]
        sq_err == [i \in idx |-> (merged[i].predicted - merged[i].actual)
                                    * (merged[i].predicted - merged[i].actual)]
        sgn(x) == IF x < 0 THEN -1 ELSE 1
        pct == [i \in idx |->
                  LET d == ActualOr1(merged[i].actual)
                  IN  Rational((merged[i].actual - merged[i].predicted) * sgn(d), Abs(d))]
        abs_pct == [i \in idx |-> Rational(Abs(pct[i].num), pct[i].den)]
        mse == Rational(SumSeq(sq_err), k)
        mape_sum == SumRat(abs_pct)
        mape == Rational(mape_sum.num * 100, mape_sum.den * k)
        mpe_sum == SumRat(pct)
        sum_actual == SumSeq([i \in idx |-> merged[i].actual])
        dev == [i \in idx |-> (k * merged[i].actual - sum_actual)
                                 * (k * merged[i].actual - sum_actual)]
    IN  IF forecasts = <<>> \/ actual_sales = <<>> \/ merged = <<>>
        THEN [empty |-> TRUE]
        ELSE [empty               |-> FALSE,
              mae                 |-> Rational(SumSeq(abs_err), k),
              mse                 |-> mse,
              rmse                |-> RatSqrt(mse),
              mape                |-> mape,
              mpe                 |-> Rational(mpe_sum.num * 100, mpe_sum.den * k),
              r_squared           |-> RSquared(SumSeq(sq_err) * k * k, SumSeq(dev)),
              accuracy_percentage |-> IF mape.num < 100 * mape.den
                                      THEN Rational(100 * mape.den - mape.num, mape.den)
                                      ELSE Rational(0, 1),
              sample_size         |-> k]

-----------------------------------------------------------------------------
(* generate_forecast, from the cache miss to the response dictionary *)

\* the threshold compared with <=
UseFallbackInclusive(n) == n <= MIN_DATA_POINTS

\* line 75
UseFallback(n) == n < MIN_DATA_POINTS

\* lines 79 and 88
ConfidenceLevel(n) ==
    IF UseFallback(n) THEN "low" ELSE IF n > 90 THEN "high" ELSE "medium"

JsonList(items) == [type |-> "list", items |-> items]
JsonDict(items) == [type |-> "dict", items |-> items]

\* lines 76-79: what the handler holds after the fallback ran
FromFallback(df, f) ==
    [ok |-> f.ok, error |-> f.error, df |-> df, forecast |-> JsonList(f.forecast),
     model_used |-> "moving_average", ran |-> <<"moving_average">>]

\* lines 81-89: what the handler holds after the adapter ran
FromAdapter(multi_step, f) ==
    [ok |-> f.ok, error |-> f.error, df |-> f.df,
     forecast |-> IF multi_step THEN JsonDict(f.forecast) ELSE JsonList(f.forecast),
     model_used |-> "prophet", ran |-> <<"prophet">>]

\* a failed adapter silently replaced by the moving average
SelectAndForecastSilent(df, days_ahead, multi_step, external_factors, outcomes) ==
    LET fallback == FromFallback(df, generate_moving_average_forecast(df.rows, days_ahead))
        adapter ==
            IF multi_step
            THEN generate_multi_step_forecast(df, external_factors, outcomes)
            ELSE generate_enhanced_prophet_forecast(df, days_ahead,
                                                    external_factors, outcomes[1])
    IN  IF UseFallback(Len(df.rows)) THEN fallback
        ELSE IF adapter.ok THEN FromAdapter(multi_step, adapter)
        ELSE [fallback EXCEPT !.ran = <<"prophet", "moving_average">>]

\* lines 75-89: the branch on len(df) and the forecaster it calls
SelectAndForecast(df, days_ahead, multi_step, external_factors, outcomes) ==
    IF UseFallback(Len(df.rows))
    THEN FromFallback(df, generate_moving_average_forecast(df.rows, days_ahead))
    ELSE FromAdapter(multi_step,
             IF multi_step
             THEN generate_multi_step_forecast(df, external_factors, outcomes)
             ELSE generate_enhanced_prophet_forecast(df, days_ahead,
                                                     external_factors, outcomes[1]))

\* how many times the handler calls the engine on this body
EngineCalls(body) ==
    LET nz == Normalize(body.sales_data)
    IN  IF ~nz.ok \/ UseFallback(Len(nz.df)) THEN 0
        ELSE IF body.multi_step THEN 3 ELSE 1

\* data.get('forecast_horizon', FORECAST_DAYS)
ForecastHorizon(body) ==
    IF body.has_horizon THEN body.forecast_horizon ELSE FORECAST_DAYS

\* lines 92-103, or the failure of the forecaster: `n` is len(df) at line
\* 75, `sel` what the forecaster left, `now` the clock that datetime.now()
\* and datetime.utcnow() read
BuildResponse(body, now, n, sel) ==
    IF ~sel.ok
    THEN [ok |-> FALSE, error |-> sel.error,
          stages |-> <<"normalize">> \o sel.ran,
          df |-> sel.df, response |-> <<>>]
    ELSE [ok |-> TRUE, error |-> "",
          stages |-> <<"normalize">> \o sel.ran \o <<"quality">>,
          df |-> sel.df,
          response |->
             [product_id            |-> body.product_id,
              forecasts             |-> sel.forecast,
              confidence_level      |-> ConfidenceLevel(n),
              model_used            |-> sel.model_used,
              data_quality_score    |->
                  calculate_data_quality_score(sel.df, Today0 + (now \div TicksPerDay)),
              external_factors_used |-> Len(body.external_factors),
              generated_at          |-> now]]

\* lines 66-103: what the handler computes after a cache miss
ComputeForecast(body, outcomes, now) ==
    LET nz == Normalize(body.sales_data)
        df == [rows |-> nz.df, columns |-> <<"ds", "y">>]
    IN  IF ~nz.ok
        THEN [ok |-> FALSE, error |-> nz.error, stages |-> <<"normalize">>,
              df |-> df, response |-> <<>>]
        ELSE BuildResponse(body, now, Len(nz.df),
                 SelectAndForecast(df, ForecastHorizon(body), body.multi_step,
                                   body.external_factors, outcomes))

-----------------------------------------------------------------------------
(* The engine *)

\* what the engine may do on one call
EngineFails == [ok |-> FALSE, rows |-> <<>>]
EngineRows(rows) == [ok |-> TRUE, rows |-> rows]
RawRow(yhat, lo, hi) == [yhat |-> yhat, yhat_lower |-> lo, yhat_upper |-> hi]
EngineOrdered == EngineRows(<<RawRow(12346, 10004, 15006), RawRow(-500, -1500, 251)>>)
EngineUnordered == EngineRows(<<RawRow(5001, 6002, 7003)>>)
EngineOutcomes == {EngineFails, EngineOrdered, EngineUnordered}
\* with two requests in flight the engine fails or answers with ordered rows
SharedOutcomes == {EngineFails, EngineOrdered}

-----------------------------------------------------------------------------
(* State *)

NoBody == [has_sales_data |-> FALSE, product_id |-> "", sales_data |-> <<>>,
           external_factors |-> <<>>, has_horizon |-> FALSE,
           forecast_horizon |-> 0, multi_step |-> FALSE]
NoLocal == [cache_key |-> <<>>, df |-> [rows |-> <<>>, columns |-> <<>>],
            outcomes |-> <<>>, response |-> <<>>]
NoResponse == [status |-> 0, body |-> <<>>]
NoAcc == [state |-> "off", forecasts |-> <<>>, actual_sales |-> <<>>,
          metrics |-> <<>>]

NoMa == [state |-> "off", rows |-> <<>>, days_ahead |-> 0, forecast |-> <<>>]

Init ==
    /\ cache = <<>>
    /\ clock = 0
    /\ pc = [r \in Reqs |-> "idle"]
    /\ request = [r \in Reqs |-> NoBody]
    /\ local = [r \in Reqs |-> NoLocal]
    /\ response = [r \in Reqs |-> NoResponse]
    /\ stages = [r \in Reqs |-> <<>>]
    /\ acc = NoAcc
    /\ ma = NoMa

-----------------------------------------------------------------------------
(* Actions of the /forecast handler *)

\* a POST /forecast arrives with one of these bodies
Receive(r, bodies) ==
    /\ pc[r] = "idle"
    /\ pc' = [pc EXCEPT ![r] = "lookup"]
    /\ \E body \in bodies : request' = [request EXCEPT ![r] = body]
    /\ UNCHANGED <<cache, clock, local, response, stages, acc, ma>>

\* the cached result read but not returned: the handler goes on to compute
CacheLookupRecompute(r) ==
    /\ pc[r] = "lookup"
    /\ LET body == request[r]
           key == cache_key(body.product_id, ForecastHorizon(body),
                            body.external_factors)
       IN  IF ~body.has_sales_data
           THEN /\ response' = [response EXCEPT ![r] =
                       [status |-> 400,
                        body |-> [error |-> "Missing sales_data in request"]]]
                /\ pc' = [pc EXCEPT ![r] = "done"]
                /\ UNCHANGED local
           ELSE /\ pc' = [pc EXCEPT ![r] = "compute"]
                /\ local' = [local EXCEPT ![r].cache_key = key]
                /\ UNCHANGED response
    /\ UNCHANGED <<cache, clock, request, stages, acc, ma>>

\* lines 48-64: the body check and the cache read
CacheLookup(r) ==
    /\ pc[r] = "lookup"
    /\ LET body == request[r]
           key == cache_key(body.product_id, ForecastHorizon(body),
                            body.external_factors)
           cached_result == redis_get(cache, key, clock)
       IN  IF ~body.has_sales_data
           THEN /\ response' = [response EXCEPT ![r] =
                       [status |-> 400,
                        body |-> [error |-> "Missing sales_data in request"]]]
                /\ pc' = [pc EXCEPT ![r] = "done"]
                /\ UNCHANGED local
           ELSE IF cached_result.found
           THEN /\ response' = [response EXCEPT ![r] =
                       [status |-> 200, body |-> json_loads(cached_result.value)]]
                /\ pc' = [pc EXCEPT ![r] = "done"]
                /\ local' = [local EXCEPT ![r].cache_key = key]
           ELSE /\ pc' = [pc EXCEPT ![r] = "compute"]
                /\ local' = [local EXCEPT ![r].cache_key = key]
                /\ UNCHANGED response
    /\ UNCHANGED <<cache, clock, request, stages, acc, ma>>

\* lines 66-103 and, on an exception, lines 110-112; `engine` is what the
\* engine may do on each call
Compute(r, engine) ==
    /\ pc[r] = "compute"
    /\ \E outcomes \in [1..EngineCalls(request[r]) -> engine] :
         \E c \in {ComputeForecast(request[r], outcomes, clock)} :
             /\ stages' = [stages EXCEPT ![r] = c.stages]
             /\ local' = [local EXCEPT ![r].df = c.df, ![r].outcomes = outcomes,
                                       ![r].response = c.response]
             /\ IF c.ok
                THEN /\ pc' = [pc EXCEPT ![r] = "write"]
                     /\ UNCHANGED response
                ELSE /\ pc' = [pc EXCEPT ![r] = "done"]
                     /\ response' = [response EXCEPT ![r] =
                            [status |-> 500, body |-> [error |-> c.error]]]
    /\ UNCHANGED <<cache, clock, request, acc, ma>>

\* lines 105-108: the cache write and the response
CacheWrite(r) ==
    /\ pc[r] = "write"
    /\ cache' = redis_setex(cache, local[r].cache_key, CACHE_TTL,
                            json_dumps(local[r].response), clock)
    /\ stages' = [stages EXCEPT ![r] = Append(@, "cache_set")]
    /\ response' = [response EXCEPT ![r] =
           [status |-> 200, body |-> local[r].response]]
    /\ pc' = [pc EXCEPT ![r] = "done"]
    /\ UNCHANGED <<clock, request, local, acc, ma>>

\* time passes
Tick ==
    /\ clock < MaxClock
    /\ clock' = clock + 1
    /\ UNCHANGED <<cache, pc, request, local, response, stages, acc, ma>>


-----------------------------------------------------------------------------
(* Inputs *)

SeqsUpTo(S, n) == UNION {[1..m -> S] : m \in 0..n}

\* evaluator inputs: lists of up to MaxAccLen records over two dates
AccDates == {1, 2}
AccVals == {-1, 0, MaxAccVal}
AccForecasts ==
    SeqsUpTo([date : AccDates, predicted_demand : AccVals], MaxAccLen)
AccActuals ==
    SeqsUpTo([date : AccDates, actual_demand : AccVals], MaxAccLen)

\* fallback inputs: a normalised frame of up to MaxSeriesLen daily rows
SeriesVals == {-1, 0, MaxSeriesVal}
SeriesRows(values) ==
    [i \in 1..Len(values) |-> [ds |-> Cell("ts", i), y |-> Cell("num", values[i])]]
SeriesDays == {0, 2}

\* sales_data: a few explicit records followed by m well-formed daily
\* records that end three days before day Today0
Rec(ds, y) == [ds |-> ds, y |-> y]
FillY(i) == 10 + (i % 3)
Filler(m) ==
    [i \in 1..m |-> Rec(Cell("iso", Today0 - 3 - m + i), Cell("num", FillY(i)))]
FillLens == {0, 8, 29, 30, 90, 91}

HeadNone == <<>>
HeadLate == <<Rec(Cell("iso", Today0 - 1), Cell("num", 40))>>
HeadNulls == <<Rec(Cell("iso", Today0 - 2), Cell("null", 0)),
               Rec(Cell("null", 0), Cell("num", 5)),
               Rec(Cell("iso", Today0 - 50), Cell("text", 0))>>
HeadBadDate == <<Rec(Cell("bad", 0), Cell("num", 1))>>
HeadNegative == <<Rec(Cell("iso", Today0 - 40), Cell("numstr", -9)),
                  Rec(Cell("iso", Today0 - 41), Cell("num", -2))>>
Heads == {HeadNone, HeadLate, HeadNulls, HeadBadDate, HeadNegative}

SalesData == {h \o Filler(m) : h \in Heads, m \in FillLens}

FactorDefault == [name |-> "promo", has_values |-> FALSE, values |-> <<>>]
FactorShort == [name |-> "price", has_values |-> TRUE, values |-> <<1>>]

Body(product_id, sales_data, external_factors, has_horizon, forecast_horizon, multi_step) ==
    [has_sales_data |-> TRUE, product_id |-> product_id, sales_data |-> sales_data,
     external_factors |-> external_factors, has_horizon |-> has_horizon,
     forecast_horizon |-> forecast_horizon, multi_step |-> multi_step]

\* the bodies of a single request: every shape of sales_data
DataBodies ==
    {NoBody} \cup
    {Body("p1", sd, ef, hh, 2, ms) :
        sd \in SalesData, ef \in {<<>>, <<FactorDefault>>, <<FactorShort>>},
        hh \in BOOLEAN, ms \in BOOLEAN}

\* the bodies of two requests in flight together
SharedBodies ==
    {Body("p1", sd, <<>>, TRUE, 1, ms) :
        sd \in {HeadNegative, HeadLate \o Filler(29)}, ms \in BOOLEAN}
    \cup {Body("p1", HeadNegative, <<>>, TRUE, 2, FALSE)}

-----------------------------------------------------------------------------
(* The accuracy endpoint and the fallback forecaster on its own *)

\* a POST /forecast/accuracy arrives
AccReceive ==
    /\ acc.state = "off"
    /\ \E forecasts \in AccForecasts, actual_sales \in AccActuals :
         acc' = [state |-> "received", forecasts |-> forecasts,
                 actual_sales |-> actual_sales, metrics |-> <<>>]
    /\ UNCHANGED <<cache, clock, pc, request, local, response, stages, ma>>

\* lines 123-126
AccEvaluate ==
    /\ acc.state = "received"
    /\ acc' = [acc EXCEPT !.state = "done",
                          !.metrics = calculate_accuracy_metrics(acc.forecasts,
                                                                 acc.actual_sales)]
    /\ UNCHANGED <<cache, clock, pc, request, local, response, stages, ma>>

\* the fallback is called on a normalised frame
MaReceive ==
    /\ ma.state = "off"
    /\ \E values \in SeqsUpTo(SeriesVals, MaxSeriesLen), days_ahead \in SeriesDays :
         ma' = [state |-> "received", rows |-> SeriesRows(values),
                days_ahead |-> days_ahead, forecast |-> <<>>]
    /\ UNCHANGED <<cache, clock, pc, request, local, response, stages, acc>>

MaRun ==
    /\ ma.state = "received"
    /\ LET f == generate_moving_average_forecast(ma.rows, ma.days_ahead)
       IN  ma' = [ma EXCEPT !.state = IF f.ok THEN "done" ELSE "failed",
                            !.forecast = f.forecast]
    /\ UNCHANGED <<cache, clock, pc, request, local, response, stages, acc>>

-----------------------------------------------------------------------------
(* Specifications *)

\* two requests in flight together
Next ==
    \/ \E r \in Reqs : Receive(r, SharedBodies)
    \/ \E r \in Reqs : CacheLookup(r)
    \/ \E r \in Reqs : Compute(r, SharedOutcomes)
    \/ \E r \in Reqs : CacheWrite(r)
    \/ Tick

Spec == Init /\ [][Next]_vars

\* one request, every shape of input
NextData ==
    \/ Receive(1, DataBodies)
    \/ CacheLookup(1)
    \/ Compute(1, EngineOutcomes)
    \/ CacheWrite(1)
    \/ Tick

SpecData == Init /\ [][NextData]_vars

\* the accuracy evaluator
NextAcc ==
    \/ AccReceive
    \/ AccEvaluate

SpecAcc == Init /\ [][NextAcc]_vars

\* the fallback forecaster
NextMa ==
    \/ MaReceive
    \/ MaRun

SpecMa == Init /\ [][NextMa]_vars

-----------------------------------------------------------------------------
(* Properties *)

Range(s) == {s[i] : i \in 1..Len(s)}

\* the handler of r missed the cache and got as far as the model selection
Selected(r) == Len(stages[r]) >= 2
\* the handler of r missed the cache and built a response dictionary
Assembled(r) == "quality" \in Range(stages[r])
RowCount(r) == Len(local[r].df.rows)
KeyOf(r) ==
    <<"forecast", request[r].product_id,
      IF request[r].has_horizon THEN request[r].forecast_horizon ELSE 30,
      Len(request[r].external_factors)>>
LiveEntry(key) == key \in DOMAIN cache /\ clock < cache[key].expires_at

\* C1: after a cache miss, a series of fewer than 30 rows goes to the moving
\* average and is labelled low; one of 30 rows or more goes to the regression
\* adapter and is labelled medium up to 90 rows and high above, whatever the
\* horizon, multi_step and the external factors are.
C1_ModelSelection ==
    \A r \in Reqs :
        Selected(r) =>
            /\ RowCount(r) < 30 =>
                 /\ stages[r][2] = "moving_average"
                 /\ "prophet" \notin Range(stages[r])
                 /\ Assembled(r) => local[r].response.confidence_level = "low"
            /\ RowCount(r) >= 30 =>
                 /\ stages[r][2] = "prophet"
                 /\ "moving_average" \notin Range(stages[r])
                 /\ Assembled(r) =>
                      local[r].response.confidence_level =
                          IF RowCount(r) <= 90 THEN "medium" ELSE "high"

C1_Witness ==
    \E r \in Reqs :
        /\ Assembled(r)
        /\ RowCount(r) = 30
        /\ request[r].multi_step
        /\ request[r].external_factors # <<>>
        /\ local[r].response.confidence_level = "medium"

\* C2: a request that finds a live entry under its key returns the stored
\* content, which is what the request that wrote it returned, runs no stage
\* and writes nothing to the cache.
C2_CacheHitShortCircuits ==
    [][\A r \in Reqs :
          (/\ pc[r] = "lookup"
           /\ pc'[r] # "lookup"
           /\ request[r].has_sales_data
           /\ LiveEntry(KeyOf(r)))
          => /\ pc'[r] = "done"
             /\ response'[r].status = 200
             /\ json_dumps(response'[r].body) = cache[KeyOf(r)].value
             /\ \E q \in Reqs \ {r} :
                    /\ "cache_set" \in Range(stages[q])
                    /\ KeyOf(q) = KeyOf(r)
                    /\ response'[r].body = response[q].body
             /\ stages'[r] = <<>>
             /\ cache' = cache]_vars

C2_Witness ==
    \E r \in Reqs :
        /\ pc[r] = "done"
        /\ response[r].status = 200
        /\ stages[r] = <<>>
        /\ \E q \in Reqs \ {r} :
               /\ "cache_set" \in Range(stages[q])
               /\ response[q].body = response[r].body
               /\ request[q] # request[r]

\* what fails on this body, read off the request and the engine's answers
NormalizeFails(r) ==
    \/ request[r].sales_data = <<>>
    \/ \E i \in 1..Len(request[r].sales_data) : request[r].sales_data[i].ds.k = "bad"
FallbackFails(r) ==
    /\ RowCount(r) = 0
    /\ (IF request[r].has_horizon THEN request[r].forecast_horizon ELSE 30) >= 1
RegressionFails(r) ==
    /\ RowCount(r) >= 30
    /\ \/ \E i \in 1..Len(request[r].external_factors) :
              /\ request[r].external_factors[i].has_values
              /\ Len(request[r].external_factors[i].values) # RowCount(r)
       \/ \E i \in 1..Len(local[r].outcomes) : ~local[r].outcomes[i].ok
StageFails(r) ==
    \/ NormalizeFails(r)
    \/ Selected(r) /\ (FallbackFails(r) \/ RegressionFails(r))

\* C3: when normalisation, the fallback or the regression adapter fails, the
\* request ends with an error response, no cache write is made and nothing is
\* stored under its key, and no forecast of the other path is returned.
C3_FailureSurfaces ==
    \A r \in Reqs :
        (stages[r] # <<>> /\ StageFails(r)) =>
            /\ pc[r] = "done"
            /\ response[r].status = 500
            /\ DOMAIN response[r].body = {"error"}
            /\ "cache_set" \notin Range(stages[r])
            /\ "quality" \notin Range(stages[r])
            /\ ~({"moving_average", "prophet"} \subseteq Range(stages[r]))
            /\ local[r].cache_key \notin DOMAIN cache

C3_Witness ==
    \E r \in Reqs :
        /\ pc[r] = "done"
        /\ RegressionFails(r)
        /\ request[r].external_factors = <<>>
        /\ stages[r] = <<"normalize", "prophet">>
        /\ response[r].status = 500

Ordered(p) ==
    /\ 0 <= p.lower_bound
    /\ p.lower_bound <= p.predicted_demand
    /\ p.predicted_demand <= p.upper_bound
RawOrdered(row) == row.yhat_lower <= row.yhat /\ row.yhat <= row.yhat_upper

\* the points of call number c of the adapter in the response of r
CallPoints(r, c) ==
    IF local[r].response.forecasts.type = "list"
    THEN local[r].response.forecasts.items
    ELSE local[r].response.forecasts.items[MultiStepLabels[c]]

\* C4: in a response the handler built, every point of the moving average is
\* ordered 0 <= lower <= predicted <= upper, and so is every point of the
\* regression adapter whose raw engine row is ordered lower <= point <= upper.
C4_PointsOrdered ==
    \A r \in Reqs :
        Assembled(r) =>
            IF local[r].response.model_used = "moving_average"
            THEN \A i \in 1..Len(local[r].response.forecasts.items) :
                     Ordered(local[r].response.forecasts.items[i])
            ELSE \A c \in 1..Len(local[r].outcomes) :
                     \A i \in 1..Len(CallPoints(r, c)) :
                         RawOrdered(EngineRow(local[r].outcomes[c], i))
                             => Ordered(CallPoints(r, c)[i])

C4_Witness ==
    \E r \in Reqs :
        /\ Assembled(r)
        /\ local[r].response.model_used = "prophet"
        /\ \E i \in 1..Len(CallPoints(r, 1)) :
               /\ RawOrdered(EngineRow(local[r].outcomes[1], i))
               /\ EngineRow(local[r].outcomes[1], i).yhat < 0
               /\ CallPoints(r, 1)[i].predicted_demand = 0
               /\ CallPoints(r, 1)[i].upper_bound > 0

IsMultiStepMapping(f) ==
    /\ f.type = "dict"
    /\ DOMAIN f.items = {"1_week", "4_week", "12_week"}
    /\ Len(f.items["1_week"]) = 7
    /\ Len(f.items["4_week"]) = 28
    /\ Len(f.items["12_week"]) = 84

\* C5 as claimed: every successful response to a multi_step request holds
\* the mapping 1_week / 4_week / 12_week of 7, 28 and 84 points.
C5_Claimed ==
    \A r \in Reqs :
        (pc[r] = "done" /\ response[r].status = 200 /\ request[r].multi_step)
            => IsMultiStepMapping(response[r].body.forecasts)

\* C5: a successful response to a multi_step request that missed the cache
\* and whose series has 30 rows or more holds the mapping 1_week / 4_week /
\* 12_week of the adapter's 7, 28 and 84 points, each dated from the day
\* after the last observation.
C5_MultiStepMapping ==
    \A r \in Reqs :
        (/\ pc[r] = "done" /\ response[r].status = 200 /\ request[r].multi_step
         /\ stages[r] # <<>> /\ RowCount(r) >= 30)
            => /\ IsMultiStepMapping(response[r].body.forecasts)
               /\ response[r].body.model_used = "prophet"
               /\ \A k \in DOMAIN response[r].body.forecasts.items :
                      \A i \in 1..Len(response[r].body.forecasts.items[k]) :
                          response[r].body.forecasts.items[k][i].date
                              = response[r].body.forecasts.items["1_week"][1].date + i - 1

C5_Witness ==
    \E r \in Reqs :
        /\ pc[r] = "done" /\ response[r].status = 200 /\ request[r].multi_step
        /\ stages[r] # <<>> /\ RowCount(r) >= 30
        /\ IsMultiStepMapping(response[r].body.forecasts)

Zero == [num |-> 0, den |-> 1]
One == [num |-> 1, den |-> 1]
Hundred == [num |-> 100, den |-> 1]

\* the joined rows: a forecast index and an actual index of the same date
JoinedPairs ==
    {p \in (1..Len(acc.forecasts)) \X (1..Len(acc.actual_sales)) :
        acc.forecasts[p[1]].date = acc.actual_sales[p[2]].date}
PerfectMatch ==
    /\ acc.state = "done"
    /\ JoinedPairs # {}
    /\ \A p \in JoinedPairs :
           acc.forecasts[p[1]].predicted_demand = acc.actual_sales[p[2]].actual_demand
AllActualEqual ==
    \A p, q \in JoinedPairs :
        acc.actual_sales[p[2]].actual_demand = acc.actual_sales[q[2]].actual_demand
ErrorsAreZero ==
    /\ ~acc.metrics.empty
    /\ acc.metrics.mae = Zero
    /\ acc.metrics.mse = Zero
    /\ acc.metrics.rmse = Zero
    /\ acc.metrics.mape = Zero
    /\ acc.metrics.mpe = Zero
    /\ acc.metrics.accuracy_percentage = Hundred

\* C7 as claimed: on a perfect match every error is 0, the accuracy is 100
\* and r_squared is 1, a single joined pair and equal actuals included.
C7_Claimed == PerfectMatch => (ErrorsAreZero /\ acc.metrics.r_squared = One)

\* C7: on a perfect match every error is 0 and the accuracy is 100;
\* r_squared is 1 when the joined actual values are not all equal and 0 when
\* they are (a single joined pair included).
C7_PerfectMatch ==
    PerfectMatch =>
        /\ ErrorsAreZero
        /\ acc.metrics.r_squared = IF AllActualEqual THEN Zero ELSE One
        /\ acc.metrics.sample_size = Cardinality(JoinedPairs)

C7_Witness == PerfectMatch /\ ~AllActualEqual /\ acc.metrics.r_squared = One

\* the window of the fallback called on its own: its size and the sum in it
MaWindow == Min(7, Len(ma.rows))
MaSum == SumSeq([i \in 1..MaWindow |-> ma.rows[Len(ma.rows) - MaWindow + i].y.v])
MaRan == ma.state = "done" /\ ma.rows # <<>> /\ MaSum >= 0

\* C8 as claimed: each bound is the returned, rounded predicted_demand
\* times 0.8 (1.2), rounded to two decimals.
C8_Claimed ==
    MaRan => \A i \in 1..Len(ma.forecast) :
        /\ ma.forecast[i].lower_bound
               = RoundHalfEven(ma.forecast[i].predicted_demand * 8, 10)
        /\ ma.forecast[i].upper_bound
               = RoundHalfEven(ma.forecast[i].predicted_demand * 12, 10)

\* C8: each bound is the unrounded window average times 0.8 (1.2), rounded
\* to two decimals, and predicted_demand is that average rounded.
C8_BoundsFromAverage ==
    MaRan => \A i \in 1..Len(ma.forecast) :
        /\ ma.forecast[i].predicted_demand = RoundHalfEven(100 * MaSum, MaWindow)
        /\ ma.forecast[i].lower_bound = RoundHalfEven(80 * MaSum, MaWindow)
        /\ ma.forecast[i].upper_bound = RoundHalfEven(120 * MaSum, MaWindow)

C8_Witness ==
    /\ MaRan
    /\ ma.forecast # <<>>
    /\ ma.forecast[1].lower_bound
           # RoundHalfEven(ma.forecast[1].predicted_demand * 8, 10)

RECURSIVE SumOver(_, _)
SumOver(S, y) ==
    IF S = {} THEN 0
    ELSE LET i == CHOOSE j \in S : TRUE IN y[i] + SumOver(S \ {i}, y)

\* the rows of the min(7, n) latest dates
LatestRows(rows) ==
    {i \in 1..Len(rows) :
        Cardinality({j \in 1..Len(rows) : rows[j].ds.v > rows[i].ds.v})
            < Min(7, Len(rows))}

\* C9 as claimed: the normalised frame is sorted by date and free of nulls,
\* the fallback averages the observations of the latest dates and its
\* forecast starts the day after the latest date.
C9_Claimed ==
    \A r \in Reqs :
        Selected(r) =>
            LET rows == local[r].df.rows
            IN  /\ \A i \in 1..Len(rows) : ~IsNull(rows[i].ds) /\ ~IsNull(rows[i].y)
                /\ \A i \in 1..(Len(rows) - 1) : rows[i].ds.v <= rows[i + 1].ds.v
                /\ (/\ Assembled(r)
                    /\ local[r].response.model_used = "moving_average"
                    /\ local[r].response.forecasts.items # <<>>)
                   => /\ local[r].response.forecasts.items[1].predicted_demand
                            = Clamp0(Round2(SumOver(LatestRows(rows), ColumnY(rows)),
                                            Min(7, Len(rows))))
                      /\ \A i \in 1..Len(rows) :
                            rows[i].ds.v < local[r].response.forecasts.items[1].date

\* the cells of the raw records that are null or not a number
RawNullCells(r) ==
    Cardinality({i \in 1..Len(request[r].sales_data) :
                    request[r].sales_data[i].ds.k = "null"})
      + Cardinality({i \in 1..Len(request[r].sales_data) :
                    request[r].sales_data[i].y.k \in {"null", "text"}})

\* C10 as claimed: the score loses 30 times the fraction of null cells of the
\* raw records (two cells a record), which is positive as soon as one raw
\* cell is null.  Both sides are scaled by the score's denominator.
C10_Claimed ==
    \A r \in Reqs :
        (Assembled(r) /\ RawNullCells(r) > 0) =>
            /\ MissingPenalty(local[r].df) > 0
            /\ MissingPenalty(local[r].df) * 2 * Len(request[r].sales_data)
                   = 300 * RawNullCells(r) * RowCount(r) * Len(local[r].df.columns)

====
